---- MODULE Spec2Model ----
(***************************************************************************)
(* Triangular-number toolkit of gregconner/triangular-number-analysis.     *)
(*                                                                         *)
(* The toolkit is a family of pure functions over integers                 *)
(* (ConnerFrac_v0.1.0.py, TriangularSquareDiff_v0.1.2.py and v0.1.4.py).    *)
(* Each function is an operator computed the way the Python code computes  *)
(* it; a behaviour of Spec picks one input and applies one function to it, *)
(* recording the returned value or the exception that left the call.  The  *)
(* scans (find_smallest_solution of v0.1.0 and of v0.1.4,                  *)
(* find_smallest_odd_consecutive_sum_and_difference of v0.1.7) advance one *)
(* candidate per step and record the calls of each iteration.              *)
(* compile_latex_to_pdf and main (TriangularLaTeXDerivation_v0.2.0.py) run *)
(* against an environment that decides how the file write and pdflatex     *)
(* end; main advances one call per step.                                   *)
(***************************************************************************)
EXTENDS Integers, Sequences, FiniteSets, TLC

VARIABLES
    fn,     \* name of the function that was called, "" before the call
    wide,   \* whether the call is made on integers wider than 31 bits, which
            \* are then held as digit sequences (see BigFromNat)
    arg,    \* the integer the function is called with
    ret,    \* the value the call returned (<<>> before the call)
    root,   \* the truncated square root of its argument the call computed
            \* (local `root` / `sqrt_x`); when the call computed none, -1
            \* (<<-1>>, which is no digit sequence, in a wide call)
    exc,    \* the exception that propagated out of the call, "" when none
            \* did; ret stays <<>> when one did
    scan_x, \* loop variable `x` of find_smallest_solution, `n` of
            \* find_smallest_odd_consecutive_sum_and_difference, `m` of main
            \* (0 outside these loops)
    env,    \* what the environment did to compile_latex_to_pdf or to
            \* main ("" in every other call)
    calls   \* the calls and prints a driver made in its latest iteration,
            \* or main made so far, in order: <<name, argument, outcome>>

vars == <<fn, wide, arg, ret, root, exc, scan_x, env, calls>>

(***************************************************************************)
(* Bounds of the model.                                                    *)
(***************************************************************************)
\* derive_expression_for_T_T_m_squared_squared is applied to
\* m in -MaxNeg .. MaxM
MaxM == 8
\* each scan (find_smallest_solution of v0.1.0 and of v0.1.4, and
\* find_smallest_odd_consecutive_sum_and_difference) is run with the bound
\* of the source and with the short bounds -MaxNeg .. MaxShortScan
MaxShortScan == 30
\* plain inputs are the integers -MaxNeg .. MaxArg
MaxNeg == 5
MaxArg == 1030
\* is_perfect_square is also applied to k*k for k in 0 .. MaxRoot
MaxRoot == 1200
\* is_square_of_triangular is also applied to T_n^2 for n in 0 .. MaxIndex
MaxIndex == 300
\* wide inputs are built from the integers 2^53 - 1 + j and from the
\* indices 2^27 - 1 + j, for j in 0 .. MaxOffset
MaxOffset == 3
\* the nested predicates are applied to T_(T_n^2) and to its square for
\* n in 1 .. MaxNest
MaxNest == 22

(***************************************************************************)
(* Primitives (ConnerFrac_v0.1.0.py; repeated verbatim in v0.1.4).          *)
(***************************************************************************)

\* a plausible slip: the halving binds to (n + 1) alone
triangular_number_halves_first(n) == n * ((n + 1) \div 2)

\* def triangular_number(n): return n * (n + 1) // 2
\* Python's // and TLA+'s \div both round towards minus infinity.
triangular_number(n) == (n * (n + 1)) \div 2

\* the largest r in lo .. hi with r*r <= x, by bisection (lo*lo <= x)
RECURSIVE floor_sqrt_between(_, _, _)
floor_sqrt_between(x, lo, hi) ==
    IF lo >= hi THEN lo
    ELSE LET mid == (lo + hi + 1) \div 2
         IN  IF mid * mid <= x
             THEN floor_sqrt_between(x, mid, hi)
             ELSE floor_sqrt_between(x, lo, mid - 1)

\* int(math.sqrt(x)) for 0 <= x < 2^31.  math.sqrt is the correctly rounded
\* IEEE-754 double square root of float(x) and int() truncates it.  Below
\* 2^52 the conversion float(x) is exact and the rounded square root cannot
\* reach the next integer (sqrt(k*k - 1) is more than half an ulp below k),
\* so the truncation is the floor of the real square root.  Every value the
\* model feeds in is below 2^31.
int_math_sqrt(x) == floor_sqrt_between(x, 0, IF x < 46340 THEN x ELSE 46340)

\* a plausible slip: the square-back test dropped in favour of "close enough"
is_perfect_square_no_verify(x) ==
    IF x < 0 THEN FALSE
    ELSE LET r == int_math_sqrt(x) IN r * r <= x

\* def is_perfect_square(x)
is_perfect_square(x) ==
    IF x < 0 THEN FALSE
    ELSE LET r == int_math_sqrt(x) IN r * r = x

\* Python's max(a, b)
max(a, b) == IF a >= b THEN a ELSE b

(***************************************************************************)
(* Integers wider than 31 bits.  Python integers are unbounded; a value    *)
(* that does not fit a 32-bit integer is carried as the sequence of its    *)
(* base-2^15 digits (15 binary digits each), least significant first,      *)
(* without leading zeros (zero is the empty sequence).                     *)
(***************************************************************************)
Base == 2 ^ 15

Digit(a, i) == IF i <= Len(a) THEN a[i] ELSE 0

RECURSIVE BigNorm(_)
BigNorm(a) ==
    IF a = <<>> THEN <<>>
    ELSE IF a[Len(a)] = 0 THEN BigNorm(SubSeq(a, 1, Len(a) - 1))
    ELSE a

RECURSIVE BigFromNat(_)
BigFromNat(n) ==
    IF n = 0 THEN <<>> ELSE <<n % Base>> \o BigFromNat(n \div Base)

\* the value of a wide integer that does fit (at most two digits are used)
BigToNat(a) == Digit(a, 1) + Base * Digit(a, 2)

RECURSIVE BigAddFrom(_, _, _, _)
BigAddFrom(a, b, i, carry) ==
    IF i > Len(a) /\ i > Len(b)
    THEN IF carry = 0 THEN <<>> ELSE <<carry>>
    ELSE LET sum == Digit(a, i) + Digit(b, i) + carry
         IN  <<sum % Base>> \o BigAddFrom(a, b, i + 1, sum \div Base)

BigAdd(a, b) == BigAddFrom(a, b, 1, 0)

\* a - b for a >= b
RECURSIVE BigSubFrom(_, _, _, _)
BigSubFrom(a, b, i, borrow) ==
    IF i > Len(a) THEN <<>>
    ELSE LET d == Digit(a, i) - Digit(b, i) - borrow
         IN  IF d < 0
             THEN <<d + Base>> \o BigSubFrom(a, b, i + 1, 1)
             ELSE <<d>> \o BigSubFrom(a, b, i + 1, 0)

BigSub(a, b) == BigNorm(BigSubFrom(a, b, 1, 0))

\* a < b, a = b, a > b as -1, 0, 1: the most significant differing digit
RECURSIVE BigCmpAt(_, _, _)
BigCmpAt(a, b, i) ==
    IF i = 0 THEN 0
    ELSE IF a[i] < b[i] THEN -1
    ELSE IF a[i] > b[i] THEN 1
    ELSE BigCmpAt(a, b, i - 1)

BigCmp(a, b) ==
    IF Len(a) < Len(b) THEN -1
    ELSE IF Len(a) > Len(b) THEN 1
    ELSE BigCmpAt(a, b, Len(a))

\* a * d for a digit d
RECURSIVE BigMulDigitFrom(_, _, _, _)
BigMulDigitFrom(a, d, i, carry) ==
    IF i > Len(a)
    THEN IF carry = 0 THEN <<>> ELSE <<carry>>
    ELSE LET prod == a[i] * d + carry
         IN  <<prod % Base>> \o BigMulDigitFrom(a, d, i + 1, prod \div Base)

BigMulDigit(a, d) == IF d = 0 THEN <<>> ELSE BigMulDigitFrom(a, d, 1, 0)

\* a * Base^k
BigShiftDigits(a, k) == IF a = <<>> THEN <<>> ELSE [j \in 1 .. k |-> 0] \o a

RECURSIVE BigMulFrom(_, _, _)
BigMulFrom(a, b, i) ==
    IF i > Len(b) THEN <<>>
    ELSE BigAdd(BigShiftDigits(BigMulDigit(a, b[i]), i - 1),
                BigMulFrom(a, b, i + 1))

BigMul(a, b) == BigMulFrom(a, b, 1)

\* floor(a / d) for 1 <= d < Base, from the most significant digit down
RECURSIVE BigDivDigitAt(_, _, _, _)
BigDivDigitAt(a, d, i, rem) ==
    IF i = 0 THEN <<>>
    ELSE LET cur == rem * Base + a[i]
         IN  BigDivDigitAt(a, d, i - 1, cur % d) \o <<cur \div d>>

BigDivDigit(a, d) == BigNorm(BigDivDigitAt(a, d, Len(a), 0))

\* a * 2^s + low for a shift s < 15 and 0 <= low < 2^s: every digit
\* takes the high part of the digit below it, no carry runs further
BigShlBits(a, s, low) ==
    IF a = <<>> THEN BigFromNat(low)
    ELSE LET n == Len(a)
             m == 2 ^ s
         IN  [i \in 1 .. (IF (a[n] * m) \div Base > 0 THEN n + 1 ELSE n) |->
                 (IF i <= n THEN (a[i] * m) % Base ELSE 0)
                 + (IF i > 1 THEN (a[i - 1] * m) \div Base ELSE low)]

\* a * 2^n and floor(a / 2^n)
BigShl(a, n) ==
    BigShiftDigits(BigShlBits(a, n % 15, 0), n \div 15)

BigShr(a, n) ==
    IF n \div 15 >= Len(a) THEN <<>>
    ELSE BigDivDigit(SubSeq(a, n \div 15 + 1, Len(a)),
                     2 ^ (n % 15))

\* the number of binary digits of a
RECURSIVE NatBitLen(_)
NatBitLen(n) == IF n = 0 THEN 0 ELSE 1 + NatBitLen(n \div 2)

BigBitLen(a) ==
    IF a = <<>> THEN 0
    ELSE (Len(a) - 1) * 15 + NatBitLen(a[Len(a)])

\* binary digit i of a (digit 0 is the least significant)
BigBit(a, i) ==
    (Digit(a, i \div 15 + 1) \div (2 ^ (i % 15))) % 2

\* floor(sqrt(a)) for a < 2^108, by the digit-by-digit method over the pairs
\* of binary digits j, j-1, ..., 0 of a, most significant first.  The root r
\* so far (below 2^54) and the remainder (at most 2r) are each held in two
\* halves, value = low + high * Half with low < Half.
Half == 2 ^ 28

RECURSIVE BigIsqrtFrom(_, _, _, _, _, _)
BigIsqrtFrom(a, j, rlow, rhigh, mlow, mhigh) ==
    IF j < 0
    THEN BigNorm(<<rlow % Base,
                   rlow \div Base + (rhigh % 4) * 2 ^ 13,
                   (rhigh \div 4) % Base,
                   rhigh \div (4 * Base)>>)
    ELSE LET pair == 2 * BigBit(a, 2 * j + 1) + BigBit(a, 2 * j)
             \* remainder * 4 + pair
             m4low == ((mlow * 4) % Half) + pair
             m4high == mhigh * 4 + (mlow * 4) \div Half
             \* trial subtrahend r * 4 + 1
             tlow == ((rlow * 4) % Half) + 1
             thigh == rhigh * 4 + (rlow * 4) \div Half
             \* r * 2
             r2low == (rlow * 2) % Half
             r2high == rhigh * 2 + (rlow * 2) \div Half
         IN  IF m4high > thigh \/ (m4high = thigh /\ m4low >= tlow)
             THEN IF m4low >= tlow
                  THEN BigIsqrtFrom(a, j - 1, r2low + 1, r2high,
                                    m4low - tlow, m4high - thigh)
                  ELSE BigIsqrtFrom(a, j - 1, r2low + 1, r2high,
                                    m4low + Half - tlow, m4high - thigh - 1)
             ELSE BigIsqrtFrom(a, j - 1, r2low, r2high, m4low, m4high)

BigIsqrt(a) == BigIsqrtFrom(a, (BigBitLen(a) + 1) \div 2 - 1, 0, 0, 0, 0)

(***************************************************************************)
(* int(math.sqrt(x)) on a wide integer: IEEE-754 binary64 arithmetic.      *)
(***************************************************************************)
\* binary digits in the significand of a Python float
MantissaBits == 53

\* float(x): x rounded to the nearest integer with a MantissaBits-digit
\* significand, ties to the even significand
float_of_int(x) ==
    LET len == BigBitLen(x)
        drop == len - MantissaBits
    IN  IF drop <= 0 THEN x
        ELSE LET q == BigShr(x, drop)
                 rest == BigSub(x, BigShl(q, drop))
                 half == BigShl(<<1>>, drop - 1)
                 c == BigCmp(rest, half)
                 up == c > 0 \/ (c = 0 /\ BigBit(q, 0) = 1)
             IN  BigShl(IF up THEN BigAdd(q, <<1>>) ELSE q, drop)

\* int(math.sqrt(f)) for a float f >= 0 of integer value: the square root
\* correctly rounded to a MantissaBits-digit significand, then truncated.
\* f is scaled by 4^t so that its square root has more than MantissaBits
\* integer digits; S is the floor of the scaled root, Q is S cut to the
\* significand, Q + 2^cut the float above it, and the root rounds to the
\* nearer of the two.  It is never half way: the square of the midpoint has
\* more than 2 * MantissaBits significant digits, f has at most MantissaBits.
int_sqrt_of_float(f) ==
    IF f = <<>> THEN <<>>
    ELSE LET rootLen == (BigBitLen(f) + 1) \div 2
             t == IF rootLen > MantissaBits THEN 0
                  ELSE MantissaBits + 1 - rootLen
             F == BigShl(f, 2 * t)
             S == BigIsqrt(F)
             cut == BigBitLen(S) - MantissaBits
             Q == BigShl(BigShr(S, cut), cut)
             mid == BigAdd(Q, BigShl(<<1>>, cut - 1))
             R == IF BigCmp(F, BigMul(mid, mid)) < 0
                  THEN Q
                  ELSE BigAdd(Q, BigShl(<<1>>, cut))
         IN  BigShr(R, t)

\* sys.float_info.max_exp: floats are below 2^MaxExponent
MaxExponent == 1024

\* math.sqrt(x) converts the int x to a float first and raises
\* OverflowError ("int too large to convert to float") when x, rounded to
\* the significand, is 2^MaxExponent or more.  The largest float is
\* 2^MaxExponent - 2^(MaxExponent - MantissaBits); its significand is odd,
\* so the integer half way from it to 2^MaxExponent rounds up, as does
\* every integer above that.
FloatOverflowFrom ==
    BigSub(BigShl(<<1>>, MaxExponent),
           BigShl(<<1>>, MaxExponent - MantissaBits - 1))

math_sqrt_raises(x) == BigCmp(x, FloatOverflowFrom) >= 0

\* root = int(math.sqrt(x)) for a wide x, 0 <= x < 2^108
int_math_sqrt_wide(x) == int_sqrt_of_float(float_of_int(x))

\* def is_perfect_square(x) for a wide x >= 0
is_perfect_square_wide(x) ==
    LET r == int_math_sqrt_wide(x) IN BigMul(r, r) = x

(***************************************************************************)
(* Composite predicates.                                                   *)
(***************************************************************************)

\* def is_square_of_triangular(x)  ->  (is_square_of_triangular, n)
is_square_of_triangular(x) ==
    IF ~ is_perfect_square(x) THEN <<FALSE, 0>>
    ELSE LET sqrt_x == int_math_sqrt(x)
             discriminant == 1 + 8 * sqrt_x
         IN  IF ~ is_perfect_square(discriminant) THEN <<FALSE, 0>>
             ELSE LET sqrt_discriminant == int_math_sqrt(discriminant)
                      n1 == (-1 + sqrt_discriminant) \div 2
                      n2 == (-1 - sqrt_discriminant) \div 2
                      n == max(n1, n2)
                  IN  IF n > 0 /\ triangular_number(n) = sqrt_x
                      THEN <<TRUE, n>>
                      ELSE <<FALSE, 0>>

\* max_n = 1000  # Reasonable upper bound
max_n == 1000

\* a plausible slip: the `m > n` guard left out of the test
difference_try_unordered(x, n) ==
    LET T_n == triangular_number(n)
        target_T_m == T_n + x
        discriminant == 1 + 8 * target_T_m
        sqrt_discriminant == int_math_sqrt(discriminant)
        m1 == (-1 + sqrt_discriminant) \div 2
        m2 == (-1 - sqrt_discriminant) \div 2
        m == max(m1, m2)
    IN  IF /\ is_perfect_square(discriminant)
           /\ triangular_number(m) = target_T_m
        THEN <<TRUE, n, m>>
        ELSE <<FALSE, 0, 0>>

\* one iteration of the loop of is_difference_of_triangulars, for index n:
\* <<TRUE, n, m>> when it returns from the function, <<FALSE, 0, 0>> when it
\* falls through to the next iteration
difference_try(x, n) ==
    LET T_n == triangular_number(n)
        target_T_m == T_n + x
        discriminant == 1 + 8 * target_T_m
        sqrt_discriminant == int_math_sqrt(discriminant)
        m1 == (-1 + sqrt_discriminant) \div 2
        m2 == (-1 - sqrt_discriminant) \div 2
        m == max(m1, m2)
    IN  IF /\ is_perfect_square(discriminant)
           /\ m > n
           /\ triangular_number(m) = target_T_m
        THEN <<TRUE, n, m>>
        ELSE <<FALSE, 0, 0>>

\* `for n in range(first, last + 1)`: the iterations run in ascending order of
\* n and the first one that returns ends the loop; when none returns the
\* function falls to `return False, 0, 0`.  The range is split in halves, the
\* lower half first, so that the evaluation nests log2(max_n) deep instead
\* of max_n deep; the order of the iterations is that of the loop.
RECURSIVE difference_search(_, _, _)
difference_search(x, first, last) ==
    IF first > last THEN <<FALSE, 0, 0>>
    ELSE IF first = last THEN difference_try(x, first)
    ELSE LET mid == (first + last) \div 2
             lower == difference_search(x, first, mid)
         IN  IF lower[1] THEN lower
             ELSE difference_search(x, mid + 1, last)

\* a plausible slip: the loop written as range(0, max_n + 1)
is_difference_of_triangulars_from_0(x) == difference_search(x, 0, max_n)

\* a plausible slip: the witnesses returned in the order (m, n)
is_difference_of_triangulars_swapped(x) ==
    LET r == difference_search(x, 1, max_n)
    IN  IF r[1] THEN <<TRUE, r[3], r[2]>> ELSE r

\* def is_difference_of_triangulars(x)  ->  (is_difference, n, m)
is_difference_of_triangulars(x) == difference_search(x, 1, max_n)

\* The candidate test shared by is_square_of_triangular (on v = sqrt_x) and
\* is_difference_of_triangulars (on v = target_T_m): the discriminant
\* 1 + 8 * v passes is_perfect_square, ...
candidate_passes(v) == is_perfect_square(1 + 8 * v)

\* ... the index is max((-1 + root) // 2, (-1 - root) // 2), ...
candidate_index(v) ==
    LET sqrt_discriminant == int_math_sqrt(1 + 8 * v)
    IN  max((-1 + sqrt_discriminant) \div 2, (-1 - sqrt_discriminant) \div 2)

\* ... and the re-verification `triangular_number(index) == v`
candidate_verified(v) == triangular_number(candidate_index(v)) = v

\* def is_sum_of_consecutive_triangulars(x)  ->  (is_sum, n)   (v0.1.4)
is_sum_of_consecutive_triangulars(x) ==
    IF ~ is_perfect_square(x) THEN <<FALSE, 0>>
    ELSE LET sqrt_x == int_math_sqrt(x)
             n == sqrt_x - 1
         IN  IF /\ n > 0
                /\ triangular_number(n) + triangular_number(n + 1) = x
             THEN <<TRUE, n>>
             ELSE <<FALSE, 0>>

\* max_n = 20  # Reasonable upper bound since T_n^2 grows quickly   (v0.1.2)
max_n_triangular_of_square == 20

\* a plausible slip: the comparison of the break turned around
RECURSIVE triangular_of_square_search_breaks_below(_, _)
triangular_of_square_search_breaks_below(v, n) ==
    IF n > max_n_triangular_of_square THEN <<FALSE, 0>>
    ELSE LET T_n == triangular_number(n)
             T_n_squared == T_n * T_n
             T_of_T_n_squared == triangular_number(T_n_squared)
         IN  IF T_of_T_n_squared = v THEN <<TRUE, n>>
             ELSE IF T_of_T_n_squared < v THEN <<FALSE, 0>>
             ELSE triangular_of_square_search_breaks_below(v, n + 1)

\* `for n in range(n, max_n + 1)` of is_triangular_of_square_of_triangular:
\* return (True, n) on equality, break on the first value above v, and
\* `return False, 0` after the loop
RECURSIVE triangular_of_square_search(_, _)
triangular_of_square_search(v, n) ==
    IF n > max_n_triangular_of_square THEN <<FALSE, 0>>
    ELSE LET T_n == triangular_number(n)
             T_n_squared == T_n * T_n
             T_of_T_n_squared == triangular_number(T_n_squared)
         IN  IF T_of_T_n_squared = v THEN <<TRUE, n>>
             ELSE IF T_of_T_n_squared > v THEN <<FALSE, 0>>
             ELSE triangular_of_square_search(v, n + 1)

\* a plausible slip: the loop written as range(2, max_n + 1)
is_triangular_of_square_of_triangular_from_2(v) ==
    triangular_of_square_search(v, 2)

\* def is_triangular_of_square_of_triangular(x)  ->  (is, n)   (v0.1.2)
is_triangular_of_square_of_triangular(v) == triangular_of_square_search(v, 1)

\* max_n = 10  # Even smaller bound since this grows very quickly   (v0.1.4)
max_n_square_of_triangular_of_square == 10

\* the loop of is_square_of_triangular_of_square_of_triangular over sqrt_x
RECURSIVE square_of_triangular_of_square_search(_, _)
square_of_triangular_of_square_search(sqrt_x, n) ==
    IF n > max_n_square_of_triangular_of_square THEN <<FALSE, 0>>
    ELSE LET T_n == triangular_number(n)
             T_n_squared == T_n * T_n
             T_of_T_n_squared == triangular_number(T_n_squared)
         IN  IF T_of_T_n_squared = sqrt_x THEN <<TRUE, n>>
             ELSE IF T_of_T_n_squared > sqrt_x THEN <<FALSE, 0>>
             ELSE square_of_triangular_of_square_search(sqrt_x, n + 1)

\* def is_square_of_triangular_of_square_of_triangular(x)  ->  (is, n)
is_square_of_triangular_of_square_of_triangular(v) ==
    IF ~ is_perfect_square(v) THEN <<FALSE, 0>>
    ELSE square_of_triangular_of_square_search(int_math_sqrt(v), 1)

(***************************************************************************)
(* find_smallest_solution (ConnerFrac_v0.1.0.py).  The scan                *)
(* `for x in range(1, 10001)` is taken with its outer bound B as a         *)
(* parameter, range(1, B + 1); the source is the instance B = OuterBound.  *)
(* Printing is a side effect without influence on the control flow.        *)
(***************************************************************************)
\* for x in range(1, 10001)
OuterBound == 10000

\* a plausible slip: the range written one too short, range(1, B)
range_exhausted_early(v, B) == v >= B

\* a plausible slip: the range written one too long, range(1, B + 2)
range_exhausted_late(v, B) == v > B + 1

\* range(1, B + 1) has no value left once the loop variable would pass B
range_exhausted(v, B) == v > B

\* a plausible slip: the solution returned on the first predicate alone
solution_try_no_difference(v) ==
    LET is_square_tri == is_square_of_triangular(v)
        is_diff_tri == is_difference_of_triangulars(v)
    IN  IF is_square_tri[1]
        THEN <<v, is_square_tri[2], is_diff_tri[2], is_diff_tri[3]>>
        ELSE <<>>

\* the body of the loop for candidate x: the tuple (x, n1, n2, m) it
\* returns from the function, <<>> when it goes on to the next candidate.
\* is_difference_of_triangulars is called only when the first test holds.
solution_try(v) ==
    LET is_square_tri == is_square_of_triangular(v)
    IN  IF is_square_tri[1]
        THEN LET is_diff_tri == is_difference_of_triangulars(v)
             IN  IF is_diff_tri[1]
                 THEN <<v, is_square_tri[2], is_diff_tri[2], is_diff_tri[3]>>
                 ELSE <<>>
        ELSE <<>>

\* if x % 1000 == 0: print(f"Checked up to {x}...")
progress_every == 1000

\* a plausible slip: the progress test written as x % 1000 == 1
progress_line_off_by_one(v, every) ==
    IF v % every = 1 THEN <<<<"print_checked_up_to", v, TRUE>>>> ELSE <<>>

\* the progress line of an iteration that did not return
progress_line(v, every) ==
    IF v % every = 0 THEN <<<<"print_checked_up_to", v, TRUE>>>> ELSE <<>>

\* a plausible slip: both predicates evaluated before the first is tested
solution_calls_eager(v) ==
    LET is_square_tri == is_square_of_triangular(v)
        is_diff_tri == is_difference_of_triangulars(v)
    IN  <<<<"is_square_of_triangular", v, is_square_tri[1]>>,
          <<"is_difference_of_triangulars", v, is_diff_tri[1]>>>>
        \o (IF is_square_tri[1] /\ is_diff_tri[1]
            THEN <<>> ELSE progress_line(v, progress_every))

\* the calls and prints the body of the loop makes for candidate x, in
\* order, each as <<name, argument, outcome>>
solution_calls(v) ==
    LET is_square_tri == is_square_of_triangular(v)
    IN  IF is_square_tri[1]
        THEN LET is_diff_tri == is_difference_of_triangulars(v)
             IN  <<<<"is_square_of_triangular", v, TRUE>>,
                   <<"is_difference_of_triangulars", v, is_diff_tri[1]>>>>
                 \o (IF is_diff_tri[1]
                     THEN <<>> ELSE progress_line(v, progress_every))
        ELSE <<<<"is_square_of_triangular", v, FALSE>>>>
             \o progress_line(v, progress_every)

(***************************************************************************)
(* find_smallest_solution of TriangularSquareDiff_v0.1.4.py: the same scan *)
(* with is_square_of_triangular_of_square_of_triangular as first test,     *)
(* `for x in range(1, 1000001)`, again with the outer bound as parameter.  *)
(***************************************************************************)
\* for x in range(1, 1000001)
OuterBound_v014 == 1000000

\* if x % 100000 == 0: print(f"Checked up to {x}...")
progress_every_v014 == 100000

\* the tuple (x, n1, n2, m) the body of the loop returns for candidate x,
\* <<>> when it goes on to the next candidate
solution_try_v014(v) ==
    LET is_square_tri_of_square_tri ==
            is_square_of_triangular_of_square_of_triangular(v)
    IN  IF is_square_tri_of_square_tri[1]
        THEN LET is_diff_tri == is_difference_of_triangulars(v)
             IN  IF is_diff_tri[1]
                 THEN <<v, is_square_tri_of_square_tri[2],
                        is_diff_tri[2], is_diff_tri[3]>>
                 ELSE <<>>
        ELSE <<>>

\* the calls and prints the body of the loop makes for candidate x; once
\* both tests hold it also asks is_sum_of_consecutive_triangulars
solution_calls_v014(v) ==
    LET is_square_tri_of_square_tri ==
            is_square_of_triangular_of_square_of_triangular(v)
    IN  IF is_square_tri_of_square_tri[1]
        THEN LET is_diff_tri == is_difference_of_triangulars(v)
             IN  <<<<"is_square_of_triangular_of_square_of_triangular",
                     v, TRUE>>,
                   <<"is_difference_of_triangulars", v, is_diff_tri[1]>>>>
                 \o (IF is_diff_tri[1]
                     THEN <<<<"is_sum_of_consecutive_triangulars", v,
                              is_sum_of_consecutive_triangulars(v)[1]>>>>
                     ELSE progress_line(v, progress_every_v014))
        ELSE <<<<"is_square_of_triangular_of_square_of_triangular",
                 v, FALSE>>>>
             \o progress_line(v, progress_every_v014)

(***************************************************************************)
(* find_smallest_odd_consecutive_sum_and_difference                        *)
(* (TriangularSquareDiff_v0.1.7.py): `for n in range(3, 100, 2)` over the  *)
(* odd squares x = n * n, with the end of the range as parameter.          *)
(***************************************************************************)
\* for n in range(3, 100, 2)
OddBound == 100

\* range(3, B, 2) has no value left once the loop variable reaches B
odd_range_exhausted(n, B) == n >= B

\* a plausible slip: the indices of the sum reported as n and n + 1
odd_solution_try_shifted(n) ==
    LET x == n * n
        is_diff_tri == is_difference_of_triangulars(x)
    IN  IF is_diff_tri[1]
        THEN <<x, n, n + 1, is_diff_tri[2], is_diff_tri[3]>>
        ELSE <<>>

\* the body of the loop for odd n: the tuple (x, n-1, n, k, m) it returns
\* from the function, <<>> when it goes on to the next n
odd_solution_try(n) ==
    LET x == n * n
        is_diff_tri == is_difference_of_triangulars(x)
    IN  IF is_diff_tri[1]
        THEN <<x, n - 1, n, is_diff_tri[2], is_diff_tri[3]>>
        ELSE <<>>

\* the calls and prints of the body of the loop; the progress line is
\* printed `if n % 10 == 1`
odd_solution_calls(n) ==
    LET x == n * n
        is_diff_tri == is_difference_of_triangulars(x)
    IN  <<<<"is_difference_of_triangulars", x, is_diff_tri[1]>>>>
        \o (IF ~ is_diff_tri[1] /\ n % 10 = 1
            THEN <<<<"print_checked_up_to", x, TRUE>>>> ELSE <<>>)

(***************************************************************************)
(* consecutive_triangular_sum_property and                                 *)
(* demonstrate_consecutive_property (TriangularSquareDiff_v0.1.4.py).      *)
(***************************************************************************)
\* a plausible slip: the square taken of n instead of n + 1
consecutive_triangular_sum_property_square_of_n(n) ==
    LET T_n == triangular_number(n)
        T_n_plus_1 == triangular_number(n + 1)
        sum_consecutive == T_n + T_n_plus_1
        square_of_next == n * n
    IN  <<T_n, T_n_plus_1, sum_consecutive, square_of_next,
          sum_consecutive = square_of_next>>

\* the tuple (T_n, T_n_plus_1, sum_consecutive, square_of_next, is_valid)
consecutive_triangular_sum_property(n) ==
    LET T_n == triangular_number(n)
        T_n_plus_1 == triangular_number(n + 1)
        sum_consecutive == T_n + T_n_plus_1
        square_of_next == (n + 1) * (n + 1)
    IN  <<T_n, T_n_plus_1, sum_consecutive, square_of_next,
          sum_consecutive = square_of_next>>

\* the lines demonstrate_consecutive_property(max_n) prints for
\* n in range(1, max_n + 1): the line with the check mark if is_valid, else
\* the line with ERROR (the parameter max_n is called last_n here)
demonstrate_consecutive_property(last_n) ==
    [n \in 1 .. last_n |->
        IF consecutive_triangular_sum_property(n)[5]
        THEN <<"print_check_mark", n, TRUE>>
        ELSE <<"print_ERROR", n, FALSE>>]

(***************************************************************************)
(* derive_expression_for_T_T_m_squared_squared                             *)
(* (TriangularLaTeXDerivation_v0.2.5.py).                                  *)
(***************************************************************************)
\* subscript_value = T_m_minus_1 + T_m_val, which the function prints as
\* the value of T_m squared
derive_subscript_value(m) == triangular_number(m - 1) + triangular_number(m)

\* T_of_subscript = triangular_number(subscript_value), the index j
derive_T_of_subscript(m) == triangular_number(derive_subscript_value(m))

\* the pair (T_of_subscript - 1, T_of_subscript) the function returns
derive_expression_for_T_T_m_squared_squared(m) ==
    <<derive_T_of_subscript(m) - 1, derive_T_of_subscript(m)>>

\* the two lines the function prints with a check mark: the value given
\* for T_m squared and the value given for (T_(T_m^2))^2
derive_prints(m) ==
    << <<"print_T_m_squared", derive_subscript_value(m), TRUE>>,
       <<"print_square_of_T_of_T_m_squared",
         triangular_number(derive_T_of_subscript(m) - 1)
             + triangular_number(derive_T_of_subscript(m)), TRUE>> >>

(***************************************************************************)
(* compile_latex_to_pdf (TriangularLaTeXDerivation_v0.2.0.py).  What the   *)
(* call does depends on the environment only: whether the .tex file can be *)
(* written, and how subprocess.run(['pdflatex', ...], capture_output=True, *)
(* text=True, timeout=30) ends.                                            *)
(***************************************************************************)
EnvOutcomes ==
    { "write_raises_OSError",       \* open(tex_file, 'w') or f.write fails
      "pdflatex_not_found",         \* subprocess.run: FileNotFoundError
      "timeout_expired",            \* subprocess.run: TimeoutExpired
      "launch_raises_PermissionError",  \* pdflatex found, not executable
      "output_not_decodable",       \* text=True: UnicodeDecodeError
      "exit_0",                     \* result.returncode == 0
      "exit_1" }                    \* result.returncode != 0

\* pdf_file = f"{filename}.pdf" for the default filename
pdf_file == "triangular_derivation.pdf"

\* def compile_latex_to_pdf(latex_content, filename): the pair of the value
\* returned (<<>> when none is) and the exception that leaves the call (""
\* when none does).  The file is written before the try block; the try
\* block catches subprocess.TimeoutExpired and FileNotFoundError only.
compile_latex_to_pdf(e) ==
    IF e = "write_raises_OSError" THEN <<<<>>, "OSError">>
    ELSE IF e = "timeout_expired" THEN <<<<"None">>, "">>
    ELSE IF e = "pdflatex_not_found" THEN <<<<"None">>, "">>
    ELSE IF e = "launch_raises_PermissionError"
         THEN <<<<>>, "PermissionError">>
    ELSE IF e = "output_not_decodable" THEN <<<<>>, "UnicodeDecodeError">>
    ELSE IF e = "exit_0" THEN <<<<pdf_file>>, "">>
    ELSE <<<<"None">>, "">>

(***************************************************************************)
(* The same functions on wide integers.  +, * and // are exact on Python   *)
(* integers of any size; only int(math.sqrt(x)) goes through a float.      *)
(* Returned tuples hold wide integers (0 is <<>>).                         *)
(***************************************************************************)

\* def triangular_number(n), n >= 0
triangular_number_wide(n) == BigDivDigit(BigMul(n, BigAdd(n, <<1>>)), 2)

consecutive_triangular_sum_property_wide(n) ==
    LET T_n == triangular_number_wide(n)
        T_n_plus_1 == triangular_number_wide(BigAdd(n, <<1>>))
        sum_consecutive == BigAdd(T_n, T_n_plus_1)
        square_of_next == BigMul(BigAdd(n, <<1>>), BigAdd(n, <<1>>))
    IN  <<T_n, T_n_plus_1, sum_consecutive, square_of_next,
          sum_consecutive = square_of_next>>

\* def is_square_of_triangular(x), x >= 0.  sqrt_discriminant >= 1, so
\* n1 = (-1 + sqrt_discriminant) // 2 >= 0 > n2 and max(n1, n2) is n1.
is_square_of_triangular_wide(x) ==
    IF ~ is_perfect_square_wide(x) THEN <<FALSE, <<>>>>
    ELSE LET sqrt_x == int_math_sqrt_wide(x)
             discriminant == BigAdd(<<1>>, BigMulDigit(sqrt_x, 8))
         IN  IF ~ is_perfect_square_wide(discriminant) THEN <<FALSE, <<>>>>
             ELSE LET sqrt_discriminant == int_math_sqrt_wide(discriminant)
                      n == BigDivDigit(BigSub(sqrt_discriminant, <<1>>), 2)
                  IN  IF n # <<>> /\ triangular_number_wide(n) = sqrt_x
                      THEN <<TRUE, n>>
                      ELSE <<FALSE, <<>>>>

\* the candidate test on a wide v >= 0, for a discriminant math.sqrt accepts
candidate_passes_wide(v) ==
    is_perfect_square_wide(BigAdd(<<1>>, BigMulDigit(v, 8)))

candidate_index_wide(v) ==
    BigDivDigit(
        BigSub(int_math_sqrt_wide(BigAdd(<<1>>, BigMulDigit(v, 8))), <<1>>),
        2)

candidate_verified_wide(v) ==
    triangular_number_wide(candidate_index_wide(v)) = v

\* one iteration of the loop of is_difference_of_triangulars, x > 0 wide;
\* <<"OverflowError">> when is_perfect_square(discriminant) raises it
difference_try_wide(x, n) ==
    LET T_n == triangular_number(n)
        target_T_m == BigAdd(BigFromNat(T_n), x)
        discriminant == BigAdd(<<1>>, BigMulDigit(target_T_m, 8))
        sqrt_discriminant == int_math_sqrt_wide(discriminant)
        m == BigDivDigit(BigSub(sqrt_discriminant, <<1>>), 2)
    IN  IF math_sqrt_raises(discriminant) THEN <<"OverflowError">>
        ELSE IF /\ is_perfect_square_wide(discriminant)
                /\ BigCmp(m, BigFromNat(n)) > 0
                /\ triangular_number_wide(m) = target_T_m
        THEN <<TRUE, BigFromNat(n), m>>
        ELSE <<FALSE, <<>>, <<>>>>

\* the loop, as difference_search
RECURSIVE difference_search_wide(_, _, _)
difference_search_wide(x, first, last) ==
    IF first > last THEN <<FALSE, <<>>, <<>>>>
    ELSE IF first = last THEN difference_try_wide(x, first)
    ELSE LET mid == (first + last) \div 2
             lower == difference_search_wide(x, first, mid)
         IN  IF Len(lower) = 1 \/ lower[1] THEN lower
             ELSE difference_search_wide(x, mid + 1, last)

\* def is_difference_of_triangulars(x)
is_difference_of_triangulars_wide(x) == difference_search_wide(x, 1, max_n)

\* def is_sum_of_consecutive_triangulars(x), x >= 0.  n = sqrt_x - 1 > 0
\* exactly when sqrt_x > 1.
is_sum_of_consecutive_triangulars_wide(x) ==
    IF ~ is_perfect_square_wide(x) THEN <<FALSE, <<>>>>
    ELSE LET sqrt_x == int_math_sqrt_wide(x)
             n == BigSub(sqrt_x, <<1>>)
         IN  IF /\ BigCmp(sqrt_x, <<1>>) > 0
                /\ BigAdd(triangular_number_wide(n),
                          triangular_number_wide(sqrt_x)) = x
             THEN <<TRUE, n>>
             ELSE <<FALSE, <<>>>>

\* the loop of is_triangular_of_square_of_triangular against a wide x; the
\* values T_(T_n^2) themselves stay below 2^31 for n <= 20
RECURSIVE triangular_of_square_search_wide(_, _)
triangular_of_square_search_wide(v, n) ==
    IF n > max_n_triangular_of_square THEN <<FALSE, <<>>>>
    ELSE LET T_n == triangular_number(n)
             T_n_squared == T_n * T_n
             T_of_T_n_squared == BigFromNat(triangular_number(T_n_squared))
             c == BigCmp(T_of_T_n_squared, v)
         IN  IF c = 0 THEN <<TRUE, BigFromNat(n)>>
             ELSE IF c > 0 THEN <<FALSE, <<>>>>
             ELSE triangular_of_square_search_wide(v, n + 1)

\* def is_triangular_of_square_of_triangular(x), x >= 0 wide
is_triangular_of_square_of_triangular_wide(v) ==
    triangular_of_square_search_wide(v, 1)

\* the loop of is_square_of_triangular_of_square_of_triangular, sqrt_x wide
RECURSIVE square_of_triangular_of_square_search_wide(_, _)
square_of_triangular_of_square_search_wide(sqrt_x, n) ==
    IF n > max_n_square_of_triangular_of_square THEN <<FALSE, <<>>>>
    ELSE LET T_n == triangular_number(n)
             T_n_squared == T_n * T_n
             T_of_T_n_squared == BigFromNat(triangular_number(T_n_squared))
             c == BigCmp(T_of_T_n_squared, sqrt_x)
         IN  IF c = 0 THEN <<TRUE, BigFromNat(n)>>
             ELSE IF c > 0 THEN <<FALSE, <<>>>>
             ELSE square_of_triangular_of_square_search_wide(sqrt_x, n + 1)

\* def is_square_of_triangular_of_square_of_triangular(x), x >= 0 wide and
\* math.sqrt(x) not raising
is_square_of_triangular_of_square_of_triangular_wide(v) ==
    IF ~ is_perfect_square_wide(v) THEN <<FALSE, <<>>>>
    ELSE square_of_triangular_of_square_search_wide(int_math_sqrt_wide(v), 1)

(***************************************************************************)
(* State machine: one call of one function on one input.                   *)
(***************************************************************************)
PlainInputs == (0 - MaxNeg) .. MaxArg

Squares == {k * k : k \in 0 .. MaxRoot}

TriangularSquares ==
    {triangular_number(n) * triangular_number(n) : n \in 0 .. MaxIndex}

Inputs == PlainInputs \cup Squares \cup TriangularSquares

\* wide inputs: the integers around 2^53, where floats stop holding every
\* integer, ...
WideRoots ==
    {BigAdd(BigSub(BigShl(<<1>>, MantissaBits), <<1>>), BigFromNat(j)) :
        j \in 0 .. MaxOffset}

\* ... their squares and the integers next to these, ...
WideSquares == {BigMul(k, k) : k \in WideRoots}

WideNonSquares == {BigAdd(x, <<1>>) : x \in WideSquares}

\* ... the squares of the triangular numbers around 2^53, ...
WideIndices == {BigFromNat(2 ^ 27 - 1 + j) : j \in 0 .. MaxOffset}

WideTriangularSquares ==
    {BigMul(triangular_number_wide(n), triangular_number_wide(n)) :
        n \in WideIndices}

\* ... and two differences of triangular numbers: T_m - T_5 for m = 2^40 and
\* T_m - T_1 for m = 2^52
WideDifferences ==
    { BigSub(triangular_number_wide(BigShl(<<1>>, 40)), BigFromNat(15)),
      BigSub(triangular_number_wide(BigShl(<<1>>, 52)), <<1>>) }

WideSquareInputs ==
    WideSquares \cup WideNonSquares \cup WideTriangularSquares

\* ... the values T_(T_n^2) and their squares, ...
WideNested ==
    {triangular_number_wide(BigMul(BigFromNat(triangular_number(n)),
                                   BigFromNat(triangular_number(n)))) :
        n \in 1 .. MaxNest}

WideNestedSquares == {BigMul(t, t) : t \in WideNested}

\* ... and the integers from 2^MaxExponent on, which no float holds
HugeInputs ==
    {BigAdd(BigShl(<<1>>, MaxExponent), BigFromNat(j)) : j \in 0 .. MaxOffset}

WideInputs ==
    WideRoots \cup WideIndices \cup WideSquareInputs \cup WideDifferences
        \cup WideNested \cup WideNestedSquares \cup HugeInputs

Init ==
    /\ fn = ""
    /\ \/ wide = FALSE /\ arg \in Inputs
       \/ wide = TRUE /\ arg \in WideInputs
    /\ ret = <<>>
    /\ root = IF wide THEN <<-1>> ELSE -1
    /\ exc = ""
    /\ scan_x = 0
    /\ env = ""
    /\ calls = <<>>

Call_triangular_number ==
    /\ fn = ""
    /\ IF wide THEN arg \in WideRoots \cup WideIndices
               ELSE arg \in PlainInputs
    /\ fn' = "triangular_number"
    /\ ret' = IF wide THEN triangular_number_wide(arg)
                      ELSE triangular_number(arg)
    /\ UNCHANGED <<wide, arg, root, exc, scan_x, env, calls>>

\* the call returns value r, having computed the local root t
Returns(r, t) == ret' = r /\ root' = t /\ exc' = ""

\* exception e propagates out of the call (only wide calls raise)
Raises(e) == ret' = <<>> /\ root' = <<-1>> /\ exc' = e

Call_is_perfect_square ==
    /\ fn = ""
    /\ wide => arg \in WideSquareInputs \cup HugeInputs
    /\ fn' = "is_perfect_square"
    /\ IF wide
       THEN IF math_sqrt_raises(arg) THEN Raises("OverflowError")
            ELSE Returns(is_perfect_square_wide(arg), int_math_sqrt_wide(arg))
       ELSE Returns(is_perfect_square(arg),
                    IF arg < 0 THEN -1 ELSE int_math_sqrt(arg))
    /\ UNCHANGED <<wide, arg, scan_x, env, calls>>

Call_is_square_of_triangular ==
    /\ fn = ""
    /\ wide => arg \in WideSquareInputs \cup HugeInputs
    /\ fn' = "is_square_of_triangular"
    /\ IF wide
       THEN IF math_sqrt_raises(arg) THEN Raises("OverflowError")
            ELSE Returns(is_square_of_triangular_wide(arg),
                         IF is_perfect_square_wide(arg)
                         THEN int_math_sqrt_wide(arg) ELSE <<-1>>)
       ELSE Returns(is_square_of_triangular(arg),
                    IF is_perfect_square(arg)
                    THEN int_math_sqrt(arg) ELSE -1)
    /\ UNCHANGED <<wide, arg, scan_x, env, calls>>

Call_is_difference_of_triangulars ==
    /\ fn = ""
    /\ IF wide THEN arg \in WideDifferences \cup HugeInputs
               ELSE arg \in PlainInputs
    /\ fn' = "is_difference_of_triangulars"
    /\ IF wide
       THEN LET r == is_difference_of_triangulars_wide(arg)
            IN  IF Len(r) = 1 THEN Raises(r[1]) ELSE Returns(r, <<-1>>)
       ELSE Returns(is_difference_of_triangulars(arg), -1)
    /\ UNCHANGED <<wide, arg, scan_x, env, calls>>

Call_is_sum_of_consecutive_triangulars ==
    /\ fn = ""
    /\ IF wide THEN arg \in WideSquares \cup WideNonSquares \cup HugeInputs
               ELSE arg \in PlainInputs \cup Squares
    /\ fn' = "is_sum_of_consecutive_triangulars"
    /\ IF wide
       THEN IF math_sqrt_raises(arg) THEN Raises("OverflowError")
            ELSE Returns(is_sum_of_consecutive_triangulars_wide(arg),
                         IF is_perfect_square_wide(arg)
                         THEN int_math_sqrt_wide(arg) ELSE <<-1>>)
       ELSE Returns(is_sum_of_consecutive_triangulars(arg),
                    IF is_perfect_square(arg)
                    THEN int_math_sqrt(arg) ELSE -1)
    /\ UNCHANGED <<wide, arg, scan_x, env, calls>>

\* is_triangular_of_square_of_triangular computes no square root
Call_is_triangular_of_square_of_triangular ==
    /\ fn = ""
    /\ wide => arg \in WideNested \cup WideNestedSquares \cup HugeInputs
    /\ fn' = "is_triangular_of_square_of_triangular"
    /\ IF wide
       THEN Returns(is_triangular_of_square_of_triangular_wide(arg), <<-1>>)
       ELSE Returns(is_triangular_of_square_of_triangular(arg), -1)
    /\ UNCHANGED <<wide, arg, scan_x, env, calls>>

Call_is_square_of_triangular_of_square_of_triangular ==
    /\ fn = ""
    /\ wide => arg \in WideNested \cup WideNestedSquares \cup HugeInputs
    /\ fn' = "is_square_of_triangular_of_square_of_triangular"
    /\ IF wide
       THEN IF math_sqrt_raises(arg) THEN Raises("OverflowError")
            ELSE Returns(
                    is_square_of_triangular_of_square_of_triangular_wide(arg),
                    IF is_perfect_square_wide(arg)
                    THEN int_math_sqrt_wide(arg) ELSE <<-1>>)
       ELSE Returns(is_square_of_triangular_of_square_of_triangular(arg),
                    IF is_perfect_square(arg)
                    THEN int_math_sqrt(arg) ELSE -1)
    /\ UNCHANGED <<wide, arg, scan_x, env, calls>>

\* find_smallest_solution is entered; arg is the outer bound B of its scan
Call_find_smallest_solution ==
    /\ fn = ""
    /\ ~ wide
    /\ arg \in ((0 - MaxNeg) .. MaxShortScan) \cup {OuterBound}
    /\ fn' = "find_smallest_solution"
    /\ scan_x' = 1
    /\ UNCHANGED <<wide, arg, ret, root, exc, env, calls>>

\* one iteration of `for x in range(1, B + 1)`: return the solution or go
\* on to the next candidate
find_smallest_solution_iterate ==
    /\ fn = "find_smallest_solution"
    /\ ret = <<>>
    /\ ~ range_exhausted(scan_x, arg)
    /\ LET returned == solution_try(scan_x)
       IN  IF returned # <<>>
           THEN ret' = returned /\ scan_x' = scan_x
           ELSE ret' = ret /\ scan_x' = scan_x + 1
    /\ calls' = solution_calls(scan_x)
    /\ UNCHANGED <<fn, wide, arg, root, exc, env>>

\* the range is used up: print("No solution found in the search range.")
\* and return None
find_smallest_solution_exhausted ==
    /\ fn = "find_smallest_solution"
    /\ ret = <<>>
    /\ range_exhausted(scan_x, arg)
    /\ ret' = <<"None">>
    /\ calls' = <<<<"print_no_solution_found", scan_x, TRUE>>>>
    /\ UNCHANGED <<fn, wide, arg, root, exc, scan_x, env>>

\* find_smallest_solution of v0.1.4 is entered; arg is the outer bound of
\* its scan.  It first calls demonstrate_consecutive_property(10).
Call_find_smallest_solution_v014 ==
    /\ fn = ""
    /\ ~ wide
    /\ arg \in ((0 - MaxNeg) .. MaxShortScan) \cup {OuterBound_v014}
    /\ fn' = "find_smallest_solution_v014"
    /\ scan_x' = 1
    /\ calls' = <<<<"demonstrate_consecutive_property", 10, TRUE>>>>
    /\ UNCHANGED <<wide, arg, ret, root, exc, env>>

find_smallest_solution_v014_iterate ==
    /\ fn = "find_smallest_solution_v014"
    /\ ret = <<>>
    /\ ~ range_exhausted(scan_x, arg)
    /\ LET returned == solution_try_v014(scan_x)
       IN  IF returned # <<>>
           THEN ret' = returned /\ scan_x' = scan_x
           ELSE ret' = ret /\ scan_x' = scan_x + 1
    /\ calls' = solution_calls_v014(scan_x)
    /\ UNCHANGED <<fn, wide, arg, root, exc, env>>

find_smallest_solution_v014_exhausted ==
    /\ fn = "find_smallest_solution_v014"
    /\ ret = <<>>
    /\ range_exhausted(scan_x, arg)
    /\ ret' = <<"None">>
    /\ calls' = <<<<"print_no_solution_found", scan_x, TRUE>>>>
    /\ UNCHANGED <<fn, wide, arg, root, exc, scan_x, env>>

\* find_smallest_odd_consecutive_sum_and_difference is entered; arg is the
\* end of its range.  It first calls demonstrate_consecutive_property(10).
Call_find_smallest_odd_consecutive_sum_and_difference ==
    /\ fn = ""
    /\ ~ wide
    /\ arg \in ((0 - MaxNeg) .. MaxShortScan) \cup {OddBound}
    /\ fn' = "find_smallest_odd_consecutive_sum_and_difference"
    /\ scan_x' = 3
    /\ calls' = <<<<"demonstrate_consecutive_property", 10, TRUE>>>>
    /\ UNCHANGED <<wide, arg, ret, root, exc, env>>

find_smallest_odd_consecutive_sum_and_difference_iterate ==
    /\ fn = "find_smallest_odd_consecutive_sum_and_difference"
    /\ ret = <<>>
    /\ ~ odd_range_exhausted(scan_x, arg)
    /\ LET returned == odd_solution_try(scan_x)
       IN  IF returned # <<>>
           THEN ret' = returned /\ scan_x' = scan_x
           ELSE ret' = ret /\ scan_x' = scan_x + 2
    /\ calls' = odd_solution_calls(scan_x)
    /\ UNCHANGED <<fn, wide, arg, root, exc, env>>

find_smallest_odd_consecutive_sum_and_difference_exhausted ==
    /\ fn = "find_smallest_odd_consecutive_sum_and_difference"
    /\ ret = <<>>
    /\ odd_range_exhausted(scan_x, arg)
    /\ ret' = <<"None">>
    /\ calls' = <<<<"print_no_solution_found", scan_x, TRUE>>>>
    /\ UNCHANGED <<fn, wide, arg, root, exc, scan_x, env>>

Call_consecutive_triangular_sum_property ==
    /\ fn = ""
    /\ IF wide THEN arg \in WideRoots \cup WideIndices
               ELSE arg \in PlainInputs
    /\ fn' = "consecutive_triangular_sum_property"
    /\ ret' = IF wide THEN consecutive_triangular_sum_property_wide(arg)
                      ELSE consecutive_triangular_sum_property(arg)
    /\ UNCHANGED <<wide, arg, root, exc, scan_x, env, calls>>

\* demonstrate_consecutive_property(max_n) prints its lines and returns None
Call_demonstrate_consecutive_property ==
    /\ fn = ""
    /\ ~ wide
    /\ arg \in (0 - MaxNeg) .. MaxShortScan
    /\ fn' = "demonstrate_consecutive_property"
    /\ ret' = <<"None">>
    /\ calls' = demonstrate_consecutive_property(arg)
    /\ UNCHANGED <<wide, arg, root, exc, scan_x, env>>

Call_derive_expression_for_T_T_m_squared_squared ==
    /\ fn = ""
    /\ ~ wide
    /\ arg \in (0 - MaxNeg) .. MaxM
    /\ fn' = "derive_expression_for_T_T_m_squared_squared"
    /\ ret' = derive_expression_for_T_T_m_squared_squared(arg)
    /\ calls' = derive_prints(arg)
    /\ UNCHANGED <<wide, arg, root, exc, scan_x, env>>

\* the content and the file name do not influence the control flow
Call_compile_latex_to_pdf ==
    /\ fn = ""
    /\ \E e \in EnvOutcomes :
          /\ env' = e
          /\ ret' = compile_latex_to_pdf(e)[1]
          /\ exc' = compile_latex_to_pdf(e)[2]
    /\ fn' = "compile_latex_to_pdf"
    /\ UNCHANGED <<wide, arg, root, scan_x, calls>>

\* main (TriangularLaTeXDerivation_v0.2.0.py) takes no argument; it is run
\* from the initial state with arg = 0.  calls is the list of the calls it
\* has made so far.
Call_main ==
    /\ fn = ""
    /\ ~ wide
    /\ arg = 0
    /\ fn' = "main"
    /\ scan_x' = 1
    /\ UNCHANGED <<wide, arg, ret, root, exc, env, calls>>

\* the call main made last ("" before the first)
last_call == IF calls = <<>> THEN "" ELSE calls[Len(calls)][1]

\* for m in range(1, 6): result = derive_expression_for_T_T_m_squared_squared(m)
main_derive ==
    /\ fn = "main"
    /\ last_call \in {"", "derive_expression_for_T_T_m_squared_squared"}
    /\ scan_x \in 1 .. 5
    /\ calls' = Append(calls,
                   <<"derive_expression_for_T_T_m_squared_squared",
                     scan_x, TRUE>>)
    /\ scan_x' = scan_x + 1
    /\ UNCHANGED <<fn, wide, arg, ret, root, exc, env>>

\* latex_content = generate_latex_document()
main_generate ==
    /\ fn = "main"
    /\ last_call = "derive_expression_for_T_T_m_squared_squared"
    /\ scan_x = 6
    /\ calls' = Append(calls, <<"generate_latex_document", 0, TRUE>>)
    /\ UNCHANGED <<fn, wide, arg, ret, root, exc, scan_x, env>>

\* pdf_file = compile_latex_to_pdf(latex_content): the outcome recorded is
\* whether a file name came back; an exception that leaves the call leaves
\* main too, which has no try block
main_compile ==
    /\ fn = "main"
    /\ last_call = "generate_latex_document"
    /\ \E e \in EnvOutcomes :
          /\ env' = e
          /\ exc' = compile_latex_to_pdf(e)[2]
          /\ calls' = Append(calls,
                         <<"compile_latex_to_pdf", 0,
                           compile_latex_to_pdf(e)[1] = <<pdf_file>>>>)
    /\ UNCHANGED <<fn, wide, arg, ret, root, scan_x>>

\* if pdf_file: display_pdf(pdf_file), which reports the file and tries to
\* open it (the outcome recorded), or reports that it is missing; main then
\* returns None
main_display ==
    /\ fn = "main"
    /\ last_call = "compile_latex_to_pdf"
    /\ exc = ""
    /\ calls[Len(calls)][3]
    /\ \E opened \in BOOLEAN :
          calls' = Append(calls, <<"display_pdf", 0, opened>>)
    /\ ret' = <<"None">>
    /\ UNCHANGED <<fn, wide, arg, root, exc, scan_x, env>>

\* else: print("Failed to generate PDF"); main then returns None
main_failed ==
    /\ fn = "main"
    /\ last_call = "compile_latex_to_pdf"
    /\ exc = ""
    /\ ~ calls[Len(calls)][3]
    /\ calls' = Append(calls, <<"print_failed_to_generate_pdf", 0, TRUE>>)
    /\ ret' = <<"None">>
    /\ UNCHANGED <<fn, wide, arg, root, exc, scan_x, env>>

Next ==
    \/ Call_triangular_number
    \/ Call_is_perfect_square
    \/ Call_is_square_of_triangular
    \/ Call_is_difference_of_triangulars
    \/ Call_is_sum_of_consecutive_triangulars
    \/ Call_is_triangular_of_square_of_triangular
    \/ Call_is_square_of_triangular_of_square_of_triangular
    \/ Call_find_smallest_solution
    \/ find_smallest_solution_iterate
    \/ find_smallest_solution_exhausted
    \/ Call_find_smallest_solution_v014
    \/ find_smallest_solution_v014_iterate
    \/ find_smallest_solution_v014_exhausted
    \/ Call_find_smallest_odd_consecutive_sum_and_difference
    \/ find_smallest_odd_consecutive_sum_and_difference_iterate
    \/ find_smallest_odd_consecutive_sum_and_difference_exhausted
    \/ Call_consecutive_triangular_sum_property
    \/ Call_demonstrate_consecutive_property
    \/ Call_derive_expression_for_T_T_m_squared_squared
    \/ Call_compile_latex_to_pdf
    \/ Call_main
    \/ main_derive
    \/ main_generate
    \/ main_compile
    \/ main_display
    \/ main_failed

Spec == Init /\ [][Next]_vars

(***************************************************************************)
(* Mathematical vocabulary of the properties, written independently of the *)
(* code's operators.  Tri(k) is the triangular number T_k, the sum         *)
(* 0 + 1 + ... + k in closed form.                                         *)
(***************************************************************************)
Tri(k) == (k * k + k) \div 2

\* T_m - T_n = x for some m > n.  Since T_m - T_n >= T_m - T_(m-1) = m for
\* 0 <= n < m, only m <= x can qualify.
IsDifferenceFrom(n, x) == \E m \in (n + 1) .. x : Tri(m) - Tri(n) = x

\* the same on wide integers, with exact square roots
BigTri(k) == BigDivDigit(BigAdd(BigMul(k, k), k), 2)

BigIsSquare(x) == BigMul(BigIsqrt(x), BigIsqrt(x)) = x

\* v = T_m for some m >= 0 iff 8v + 1 = (2m + 1)^2, and m is then
\* (sqrt(8v + 1) - 1) / 2
BigIsTriangular(v) == BigIsSquare(BigAdd(BigMulDigit(v, 8), <<1>>))

BigTriangularIndex(v) ==
    BigDivDigit(BigSub(BigIsqrt(BigAdd(BigMulDigit(v, 8), <<1>>)), <<1>>), 2)

\* T_m - T_n = x for some m > n, for x > 0: T_n + x is triangular
BigIsDifferenceFrom(n, x) == BigIsTriangular(BigAdd(BigTri(BigFromNat(n)), x))

\* T_(T_n^2), as a plain and as a wide integer
TriOfSquareOfTri(n) == Tri(Tri(n) * Tri(n))

BigTriOfSquareOfTri(n) ==
    BigTri(BigMul(BigFromNat(Tri(n)), BigFromNat(Tri(n))))

(***************************************************************************)
(* C1 .. C10                                                               *)
(***************************************************************************)

\* C1: for every n >= 0, triangular_number(n) is exactly n*(n+1)/2, an
\* integer without rounding (twice the result is n*(n+1)), and T_0 = 0.
C1_TriangularExact ==
    (fn = "triangular_number") =>
        IF wide
        THEN BigMulDigit(ret, 2) = BigMul(arg, BigAdd(arg, <<1>>))
        ELSE arg >= 0 =>
                /\ 2 * ret = arg * (arg + 1)
                /\ arg = 0 => ret = 0

C1_Witness ==
    fn = "triangular_number" /\ ~ wide /\ arg = 1000 /\ ret = 500500

\* C2: for every x of the plain input range, is_perfect_square(x) is True iff
\* x >= 0 and r*r = x for some integer r; it is False for 2, 3, 5, 6, 7, 8,
\* 10 and 99.
C2_PerfectSquareIff ==
    (fn = "is_perfect_square" /\ ~ wide /\ arg \in PlainInputs) =>
        /\ ret <=> (arg >= 0 /\ \E r \in 0 .. arg : r * r = arg)
        /\ arg \in {2, 3, 5, 6, 7, 8, 10, 99} => ret = FALSE

C2_Witness == fn = "is_perfect_square" /\ ~ wide /\ arg = 99 /\ ret = FALSE

\* C3: for every k >= 0, is_perfect_square(k*k) is True and the truncated
\* square root the code derives for k*k is k.
C3_SquareAccepted ==
    fn = "is_perfect_square" =>
        IF wide
        THEN \A k \in WideRoots :
                arg = BigMul(k, k) => ret = TRUE /\ root = k
        ELSE \A k \in 0 .. MaxRoot :
                arg = k * k => ret = TRUE /\ root = k

\* C4: round trip of the inverse-triangular lookup: for every n >= 1,
\* is_square_of_triangular(triangular_number(n)^2) returns (True, n).
C4_RoundTrip ==
    fn = "is_square_of_triangular" =>
        IF wide
        THEN \A n \in WideIndices :
                arg = BigMul(BigTri(n), BigTri(n)) => ret = <<TRUE, n>>
        ELSE \A n \in 1 .. MaxIndex :
                arg = Tri(n) * Tri(n) => ret = <<TRUE, n>>

\* C5: for every x >= 0, is_square_of_triangular(x) is true iff x is a
\* perfect square whose root is T_k for some index k >= 0 (T_0 = 0), and the
\* returned witness is that k; 1 gives (True, 1), 9 gives (True, 2), 2 gives
\* False.
C5_SquareOfTriangular ==
    fn = "is_square_of_triangular" =>
        IF wide
        THEN /\ exc = ""
             /\ IF BigIsSquare(arg) /\ BigIsTriangular(BigIsqrt(arg))
                THEN ret = <<TRUE, BigTriangularIndex(BigIsqrt(arg))>>
                ELSE ret[1] = FALSE
        ELSE arg >= 0 =>
                LET K == {k \in 0 .. MaxIndex : Tri(k) * Tri(k) = arg}
                IN  /\ IF K = {} THEN ret[1] = FALSE
                       ELSE ret[1] = TRUE /\ ret[2] \in K
                    /\ arg = 1 => ret = <<TRUE, 1>>
                    /\ arg = 9 => ret = <<TRUE, 2>>
                    /\ arg = 2 => ret[1] = FALSE

\* C6: for every x > 0, is_difference_of_triangulars(x) is true iff
\* T_m - T_n = x for some naturals m > n >= 0.  (For a wide x the pair
\* n = x - 1, m = x is tried.)
C6_DifferenceIff ==
    fn = "is_difference_of_triangulars" =>
        IF wide
        THEN /\ exc = ""
             /\ ret[1] <=>
                    BigSub(BigTri(arg), BigTri(BigSub(arg, <<1>>))) = arg
        ELSE arg > 0 =>
                (ret[1] <=> \E n \in 0 .. (arg - 1) : IsDifferenceFrom(n, arg))

\* C7: whenever is_difference_of_triangulars(x) returns (True, n, m), then
\* 1 <= n <= 1000, m > n and triangular_number(m) - triangular_number(n) = x.
C7_WitnessesSound ==
    (fn = "is_difference_of_triangulars" /\ exc = "" /\ ret[1]) =>
        IF wide
        THEN /\ BigCmp(ret[2], <<1>>) >= 0
             /\ BigCmp(ret[2], BigFromNat(1000)) <= 0
             /\ BigCmp(ret[3], ret[2]) > 0
             /\ BigSub(triangular_number_wide(ret[3]),
                       triangular_number_wide(ret[2])) = arg
        ELSE /\ 1 <= ret[2]
             /\ ret[2] <= 1000
             /\ ret[3] > ret[2]
             /\ triangular_number(ret[3]) - triangular_number(ret[2]) = arg

C7_Witness ==
    /\ fn = "is_difference_of_triangulars"
    /\ ~ wide
    /\ arg = 512
    /\ ret = <<TRUE, 511, 512>>

\* C8: is_difference_of_triangulars(x) returns the witness with the smallest
\* n: the returned n is the least n in 1..1000 for which T_n + x is a
\* triangular number T_m with m > n, and the result is (False, 0, 0) exactly
\* when no n in 1..1000 yields such an m.
C8_SmallestWitness ==
    fn = "is_difference_of_triangulars" =>
        IF wide
        THEN /\ exc = ""
             /\ IF ret[1]
                THEN /\ BigToNat(ret[2]) \in 1 .. 1000
                     /\ BigIsDifferenceFrom(BigToNat(ret[2]), arg)
                     /\ \A k \in 1 .. (BigToNat(ret[2]) - 1) :
                           ~ BigIsDifferenceFrom(k, arg)
                ELSE /\ ret = <<FALSE, <<>>, <<>>>>
                     /\ \A k \in 1 .. 1000 : ~ BigIsDifferenceFrom(k, arg)
        ELSE IF ret[1]
             THEN /\ ret[2] \in 1 .. 1000
                  /\ IsDifferenceFrom(ret[2], arg)
                  /\ \A k \in 1 .. (ret[2] - 1) : ~ IsDifferenceFrom(k, arg)
             ELSE /\ ret = <<FALSE, 0, 0>>
                  /\ \A k \in 1 .. 1000 : ~ IsDifferenceFrom(k, arg)

\* C9: for x = 5, is_difference_of_triangulars returns (True, 2, 3) or an
\* equivalent witness pair (n, m) with m > n and T_m - T_n = 5.
C9_DifferenceFive ==
    (fn = "is_difference_of_triangulars" /\ ~ wide /\ arg = 5) =>
        \/ ret = <<TRUE, 2, 3>>
        \/ /\ ret[1] = TRUE
           /\ ret[3] > ret[2]
           /\ Tri(ret[3]) - Tri(ret[2]) = 5

\* the pair the code returns for 5 is (1, 3): T_3 - T_1 = 6 - 1
C9_Witness ==
    /\ fn = "is_difference_of_triangulars"
    /\ ~ wide
    /\ arg = 5
    /\ ret = <<TRUE, 1, 3>>

\* C10: is_sum_of_consecutive_triangulars(x) returns (True, k-1) iff x = k*k
\* for some integer k >= 2 and (False, 0) otherwise (x = 0 and x = 1
\* included); x = 9 gives (True, 2); a witness n satisfies T_n + T_(n+1) = x.
C10_SumOfConsecutive ==
    fn = "is_sum_of_consecutive_triangulars" =>
        IF wide
        THEN /\ exc = ""
             /\ IF BigIsSquare(arg)
                THEN ret = <<TRUE, BigSub(BigIsqrt(arg), <<1>>)>>
                ELSE ret = <<FALSE, <<>>>>
        ELSE /\ IF \E k \in 2 .. MaxRoot : k * k = arg
                THEN \E k \in 2 .. MaxRoot :
                        k * k = arg /\ ret = <<TRUE, k - 1>>
                ELSE ret = <<FALSE, 0>>
             /\ ret[1] => Tri(ret[2]) + Tri(ret[2] + 1) = arg
             /\ arg = 9 => ret = <<TRUE, 2>>
             /\ arg \in {0, 1} => ret = <<FALSE, 0>>

(***************************************************************************)
(* C11 .. C20                                                              *)
(***************************************************************************)

\* C11: is_triangular_of_square_of_triangular(x) returns (True, n) iff
\* x = T_(T_n^2) for some n in 1..20, n being that index, and (False, 0)
\* otherwise.
C11_TriangularOfSquare ==
    (fn = "is_triangular_of_square_of_triangular") =>
        /\ exc = ""
        /\ IF wide
           THEN IF \E n \in 1 .. 20 : arg = BigTriOfSquareOfTri(n)
                THEN \E n \in 1 .. 20 :
                        /\ arg = BigTriOfSquareOfTri(n)
                        /\ ret = <<TRUE, BigFromNat(n)>>
                ELSE ret = <<FALSE, <<>>>>
           ELSE IF \E n \in 1 .. 20 : arg = TriOfSquareOfTri(n)
                THEN \E n \in 1 .. 20 :
                        arg = TriOfSquareOfTri(n) /\ ret = <<TRUE, n>>
                ELSE ret = <<FALSE, 0>>

\* the last index of the search, T_(T_20^2) = T_44100 = 972427050
C11_Witness ==
    /\ fn = "is_triangular_of_square_of_triangular"
    /\ wide
    /\ arg = BigTriOfSquareOfTri(20)
    /\ ret = <<TRUE, <<20>>>>

\* C12: is_square_of_triangular_of_square_of_triangular(x) returns (True, n)
\* exactly when x is a perfect square and
\* is_triangular_of_square_of_triangular(root of x) returns (True, n), and
\* (False, 0) otherwise.
C12_Composition ==
    (fn = "is_square_of_triangular_of_square_of_triangular") =>
        /\ exc = ""
        /\ IF wide
           THEN IF /\ BigIsSquare(arg)
                   /\ is_triangular_of_square_of_triangular_wide(
                          BigIsqrt(arg))[1]
                THEN ret = is_triangular_of_square_of_triangular_wide(
                              BigIsqrt(arg))
                ELSE ret = <<FALSE, <<>>>>
           ELSE IF /\ is_perfect_square(arg)
                   /\ is_triangular_of_square_of_triangular(
                          int_math_sqrt(arg))[1]
                THEN ret = is_triangular_of_square_of_triangular(
                              int_math_sqrt(arg))
                ELSE ret = <<FALSE, 0>>

\* both predicates of the scan, as the code computes them
BothHold(v) ==
    is_square_of_triangular(v)[1] /\ is_difference_of_triangulars(v)[1]

\* find_smallest_solution has returned a solution tuple / None
ReturnedSolution == fn = "find_smallest_solution" /\ Len(ret) = 4

ReturnedNone ==
    fn = "find_smallest_solution" /\ Len(ret) = 1 /\ ret[1] = "None"

\* C13: when find_smallest_solution returns (x, n1, n2, m), x is the first
\* value of the scan order 1, 2, ... for which is_square_of_triangular and
\* is_difference_of_triangulars both hold, every x' with 1 <= x' < x fails
\* one of the two, and T_n1^2 = x and T_m - T_n2 = x.
C13_FirstInScanOrder ==
    ReturnedSolution =>
        /\ ret[1] \in 1 .. OuterBound
        /\ BothHold(ret[1])
        /\ \A y \in 1 .. (ret[1] - 1) : ~ BothHold(y)
        /\ Tri(ret[2]) * Tri(ret[2]) = ret[1]
        /\ Tri(ret[4]) - Tri(ret[3]) = ret[1]

\* the run of the source, B = 10000: 9 = T_2^2 = T_4 - T_1
C13_Witness ==
    /\ fn = "find_smallest_solution"
    /\ arg = OuterBound
    /\ ret = <<9, 2, 1, 4>>

\* C14: find_smallest_solution finds the smallest natural number that is
\* both the square of a triangular number and the difference of two
\* triangular numbers: no natural number below the returned x is T_k^2 for
\* some k >= 0 and also T_m - T_n for naturals m > n >= 0 (T_0 = 0).
C14_SmallestNatural ==
    ReturnedSolution =>
        \A y \in 0 .. (ret[1] - 1) :
            ~ /\ \E k \in 0 .. y : Tri(k) * Tri(k) = y
              /\ \E n \in 0 .. y : IsDifferenceFrom(n, y)

\* C15: every run of find_smallest_solution ends, after at most B
\* iterations of its loop, either with a solution tuple with witnesses or
\* with None, and never with an exception.  Stated on the steps of the
\* run: no exception leaves it, at most B iterations are completed, every
\* step of a run that has not returned either returns or moves on to the
\* next candidate, and what is returned is a solution tuple or None.
C15_DriverTerminates ==
    /\ [](fn = "find_smallest_solution" =>
            /\ exc = ""
            /\ scan_x - 1 <= max(arg, 0)
            /\ ret # <<>> => (ReturnedSolution \/ ReturnedNone))
    /\ [][(fn = "find_smallest_solution" /\ ret = <<>>) =>
            (ret' # <<>> \/ scan_x' = scan_x + 1)]_vars

\* a run that used up its range: three iterations, then None
C15_Witness ==
    /\ ReturnedNone
    /\ arg = 3
    /\ scan_x = 4

\* the smallest x of the scan 1 .. 10000 satisfying both predicates
SmallestBoth ==
    CHOOSE y \in 1 .. OuterBound :
        BothHold(y) /\ \A z \in 1 .. (y - 1) : ~ BothHold(z)

\* C16: with outer bound B, find_smallest_solution returns None when B is
\* smaller than the smallest x satisfying both predicates and returns that
\* x, with the same witnesses, for every B at or above it.
C16_BoundSensitivity ==
    (fn = "find_smallest_solution" /\ ret # <<>>) =>
        IF arg < SmallestBoth
        THEN ReturnedNone
        ELSE /\ Len(ret) = 4
             /\ ret = << SmallestBoth,
                         is_square_of_triangular(SmallestBoth)[2],
                         is_difference_of_triangulars(SmallestBoth)[2],
                         is_difference_of_triangulars(SmallestBoth)[3] >>

\* the bound just below the smallest solution
C16_Witness == ReturnedNone /\ arg = 8 /\ scan_x = 9

\* C17: negative input yields a false/zero sentinel and no exception:
\* is_perfect_square(x) returns False for every x < 0, and
\* triangular_number(n) returns 0 for every negative index n.
C17_NegativeSentinel ==
    (~ wide /\ arg < 0) =>
        /\ fn = "is_perfect_square" => (exc = "" /\ ret = FALSE)
        /\ fn = "triangular_number" => (exc = "" /\ ret = 0)

\* C17 as amended: is_perfect_square(x) returns False for every x < 0, and
\* triangular_number(n) raises nothing for a negative n and returns
\* n*(n+1)/2, which is T_(-n-1): 0 for n = -1 only, positive below.
C17_NegativeDefined ==
    (~ wide /\ arg < 0) =>
        /\ fn = "is_perfect_square" => (exc = "" /\ ret = FALSE)
        /\ fn = "triangular_number" =>
                /\ exc = ""
                /\ ret = Tri(0 - arg - 1)
                /\ ret = 0 <=> arg = -1

C17_Witness == fn = "triangular_number" /\ ~ wide /\ arg = -3 /\ ret = 3

\* the five composite predicates
CompositePredicates ==
    { "is_square_of_triangular", "is_difference_of_triangulars",
      "is_sum_of_consecutive_triangulars",
      "is_triangular_of_square_of_triangular",
      "is_square_of_triangular_of_square_of_triangular" }

\* number of witness fields of the result of a composite predicate
WitnessFields(f) == IF f = "is_difference_of_triangulars" THEN 2 ELSE 1

\* C18: the pure-computation core cannot throw on integer input: for every
\* x <= 0 each composite predicate returns its not-found result with all
\* witness fields 0, and for every x > 0 each returns a well-formed
\* (bool, witness...) tuple.
C18_CoreCannotThrow ==
    fn \in CompositePredicates =>
        /\ exc = ""
        /\ Len(ret) = 1 + WitnessFields(fn)
        /\ ret[1] \in BOOLEAN
        /\ (~ wide /\ arg <= 0) =>
                /\ ret[1] = FALSE
                /\ \A i \in 2 .. Len(ret) : ret[i] = 0

\* C19: a failure of the LaTeX step never escapes as an exception:
\* compile_latex_to_pdf returns the PDF file name exactly when pdflatex
\* exits with code 0, and returns None for a non-zero exit, a timeout, a
\* missing pdflatex binary, or any other failure while writing the .tex
\* file or launching the tool.
C19_LatexFailureContained ==
    fn = "compile_latex_to_pdf" =>
        /\ exc = ""
        /\ ret = IF env = "exit_0" THEN <<pdf_file>> ELSE <<"None">>

\* C20: is_perfect_square classifies large inputs correctly: beyond the
\* range floats hold exactly it accepts every perfect square and rejects
\* every non-square, and raises nothing.
C20_LargeInputsClassified ==
    (fn = "is_perfect_square" /\ wide) =>
        /\ exc = ""
        /\ ret <=> BigIsSquare(arg)

(***************************************************************************)
(* C21 .. C29                                                              *)
(***************************************************************************)
\* the candidate of the latest iteration of a driver's loop
LatestCandidate == IF ret = <<>> THEN scan_x - 1 ELSE scan_x

\* the state follows an iteration of the loop of driver f
AfterIteration(f) ==
    /\ fn = f
    /\ ret # <<"None">>
    /\ scan_x > 1 \/ ret # <<>>

\* in the calls of the latest iteration, the first is `first` on the
\* candidate, and every call of is_difference_of_triangulars directly
\* follows a call of `first` on the same x that returned True
ShortCircuit(first) ==
    /\ Len(calls) >= 1
    /\ calls[1][1] = first
    /\ calls[1][2] = LatestCandidate
    /\ \A i \in 1 .. Len(calls) :
          calls[i][1] = "is_difference_of_triangulars"
              => /\ i > 1
                 /\ calls[i - 1] = <<first, calls[i][2], TRUE>>

\* C21: in each iteration of find_smallest_solution (v0.1.0 and v0.1.4) the
\* first predicate is called first, and is_difference_of_triangulars(x) is
\* called only after the first predicate returned True for the same x,
\* never for an x the first predicate rejected.
C21_ShortCircuit ==
    /\ AfterIteration("find_smallest_solution")
          => /\ ShortCircuit("is_square_of_triangular")
             /\ (Len(calls) >= 2 /\ calls[2][1] = "is_difference_of_triangulars")
                    <=> is_square_of_triangular(LatestCandidate)[1]
    /\ AfterIteration("find_smallest_solution_v014")
          => /\ ShortCircuit("is_square_of_triangular_of_square_of_triangular")
             /\ (Len(calls) >= 2 /\ calls[2][1] = "is_difference_of_triangulars")
                    <=> is_square_of_triangular_of_square_of_triangular(
                            LatestCandidate)[1]

\* the first predicate accepted 1, is_difference_of_triangulars was asked
\* and rejected it; the first predicate then rejected 2 and nothing more
\* was asked
C21_Witness ==
    /\ fn = "find_smallest_solution"
    /\ ret = <<>>
    /\ scan_x = 2
    /\ calls = <<<<"is_square_of_triangular", 1, TRUE>>,
                 <<"is_difference_of_triangulars", 1, FALSE>>>>

\* the order of the calls of main up to and including the compilation
MainOrder ==
    [i \in 1 .. 7 |->
        IF i <= 5 THEN <<"derive_expression_for_T_T_m_squared_squared", i>>
        ELSE IF i = 6 THEN <<"generate_latex_document", 0>>
        ELSE <<"compile_latex_to_pdf", 0>>]

\* compile_latex_to_pdf was called by main and produced no PDF file
CompileFailed == fn = "main" /\ env # "" /\ env # "exit_0"

\* C22: main makes its calls in the order derivations for m = 1..5, document
\* generation, compile_latex_to_pdf, display; display_pdf is called only
\* if compile_latex_to_pdf returned a file name; on any compile failure
\* no exception leaves main, and main ends having printed
\* 'Failed to generate PDF' after the five derivations.
C22_MainOrder ==
    fn = "main" =>
        /\ \A i \in 1 .. Len(calls) :
              i <= 7 => <<calls[i][1], calls[i][2]>> = MainOrder[i]
        /\ Len(calls) <= 8
        /\ Len(calls) = 8 =>
              /\ ret = <<"None">>
              /\ calls[8][1] = IF calls[7][3]
                               THEN "display_pdf"
                               ELSE "print_failed_to_generate_pdf"
              /\ calls[7][3] <=> env = "exit_0"
        /\ ret # <<>> => Len(calls) = 8
        /\ CompileFailed => exc = ""

\* x is odd and both is_sum_of_consecutive_triangulars and
\* is_difference_of_triangulars accept it
OddBothHold(v) ==
    /\ v % 2 = 1
    /\ is_sum_of_consecutive_triangulars(v)[1]
    /\ is_difference_of_triangulars(v)[1]

\* C23: find_smallest_odd_consecutive_sum_and_difference returns a tuple
\* (x, n-1, n, k, m) whose x is the smallest odd integer that both
\* is_sum_of_consecutive_triangulars and is_difference_of_triangulars
\* accept, with T_(n-1) + T_n = x, T_m - T_k = x, m > k, and n-1 the witness
\* of is_sum_of_consecutive_triangulars(x); with the source's range it
\* returns (9, 2, 3, 1, 4).
C23_SmallestOdd ==
    fn = "find_smallest_odd_consecutive_sum_and_difference" =>
        /\ Len(ret) = 5 =>
              /\ OddBothHold(ret[1])
              /\ \A y \in (0 - MaxNeg) .. (ret[1] - 1) : ~ OddBothHold(y)
              /\ ret[3] = ret[2] + 1
              /\ Tri(ret[2]) + Tri(ret[3]) = ret[1]
              /\ Tri(ret[5]) - Tri(ret[4]) = ret[1]
              /\ ret[5] > ret[4]
              /\ is_sum_of_consecutive_triangulars(ret[1]) = <<TRUE, ret[2]>>
        /\ arg = OddBound /\ ret # <<>> => ret = <<9, 2, 3, 1, 4>>

C23_Witness ==
    /\ fn = "find_smallest_odd_consecutive_sum_and_difference"
    /\ arg = OddBound
    /\ ret = <<9, 2, 3, 1, 4>>

\* C24: for m in 1..5, derive_expression_for_T_T_m_squared_squared(m)
\* returns consecutive indices (j-1, j) with T_(j-1) + T_j = (T_(T_m^2))^2,
\* and the two values it prints with a check mark are right: the one given
\* for T_m^2 is (T_m)^2 and the one given for (T_(T_m^2))^2 is the square of
\* the triangular number with index (T_m)^2.
C24_DerivationSound ==
    fn = "derive_expression_for_T_T_m_squared_squared" /\ arg \in 1 .. 5 =>
        /\ ret[2] = ret[1] + 1
        /\ Tri(ret[1]) + Tri(ret[2])
              = TriOfSquareOfTri(arg) * TriOfSquareOfTri(arg)
        /\ calls[1][2] = Tri(arg) * Tri(arg)
        /\ calls[2][2] = TriOfSquareOfTri(arg) * TriOfSquareOfTri(arg)

\* C25: for every n >= 0, consecutive_triangular_sum_property(n) returns
\* is_valid = True with T_n + T_(n+1) = (n+1)^2, and
\* demonstrate_consecutive_property prints one line for each n in 1..max_n,
\* none of them an ERROR line.
C25_ConsecutiveSumValid ==
    /\ fn = "consecutive_triangular_sum_property" /\ wide =>
          /\ ret[5]
          /\ ret[1] = BigTri(arg)
          /\ ret[2] = BigTri(BigAdd(arg, <<1>>))
          /\ BigAdd(ret[1], ret[2])
                = BigMul(BigAdd(arg, <<1>>), BigAdd(arg, <<1>>))
    /\ fn = "consecutive_triangular_sum_property" /\ ~ wide /\ arg >= 0 =>
          /\ ret[5]
          /\ ret[1] = Tri(arg)
          /\ ret[2] = Tri(arg + 1)
          /\ ret[1] + ret[2] = (arg + 1) * (arg + 1)
    /\ fn = "demonstrate_consecutive_property" =>
          /\ Len(calls) = max(arg, 0)
          /\ \A i \in 1 .. Len(calls) :
                calls[i] = <<"print_check_mark", i, TRUE>>

C25_Witness ==
    /\ fn = "consecutive_triangular_sum_property"
    /\ ~ wide
    /\ arg = 4
    /\ ret = <<10, 15, 25, 25, TRUE>>

\* the loop over n in 1 .. bound without the break: the first n whose
\* T_(T_n^2) is v
FullScan(v, bound) ==
    IF \E n \in 1 .. bound : TriOfSquareOfTri(n) = v
    THEN <<TRUE, CHOOSE n \in 1 .. bound :
                    /\ TriOfSquareOfTri(n) = v
                    /\ \A k \in 1 .. (n - 1) : TriOfSquareOfTri(k) # v>>
    ELSE <<FALSE, 0>>

BigFullScan(v, bound) ==
    IF \E n \in 1 .. bound : BigTriOfSquareOfTri(n) = v
    THEN <<TRUE, BigFromNat(CHOOSE n \in 1 .. bound :
                    /\ BigTriOfSquareOfTri(n) = v
                    /\ \A k \in 1 .. (n - 1) : BigTriOfSquareOfTri(k) # v)>>
    ELSE <<FALSE, <<>>>>

\* C26: T_(T_n^2) is strictly increasing over the scanned range, and the
\* result of is_triangular_of_square_of_triangular (n up to 20) and of
\* is_square_of_triangular_of_square_of_triangular (n up to 10, on the
\* square root) equals the result of the same scan without the break.
C26_EarlyExitLossless ==
    /\ fn \in { "is_triangular_of_square_of_triangular",
                "is_square_of_triangular_of_square_of_triangular" } =>
          \A n \in 1 .. (max_n_triangular_of_square - 1) :
              BigCmp(BigTriOfSquareOfTri(n), BigTriOfSquareOfTri(n + 1)) < 0
    /\ fn = "is_triangular_of_square_of_triangular" =>
          ret = IF wide THEN BigFullScan(arg, max_n_triangular_of_square)
                        ELSE FullScan(arg, max_n_triangular_of_square)
    /\ fn = "is_square_of_triangular_of_square_of_triangular" /\ exc = "" =>
          ret = IF wide
                THEN IF is_perfect_square_wide(arg)
                     THEN BigFullScan(int_math_sqrt_wide(arg),
                                      max_n_square_of_triangular_of_square)
                     ELSE <<FALSE, <<>>>>
                ELSE IF is_perfect_square(arg)
                     THEN FullScan(int_math_sqrt(arg),
                                   max_n_square_of_triangular_of_square)
                     ELSE <<FALSE, 0>>

\* for x = 50 the loop passes T_(T_1^2) = 1 and T_(T_2^2) = 45 and breaks at
\* T_(T_3^2) = 666 with 17 values of n unscanned
C26_Witness ==
    /\ fn = "is_triangular_of_square_of_triangular"
    /\ ~ wide
    /\ arg = 50
    /\ ret = <<FALSE, 0>>
    /\ triangular_of_square_search(50, 3) = <<FALSE, 0>>
    /\ TriOfSquareOfTri(3) > 50

\* C27: among the integers 1 .. 1001, is_difference_of_triangulars rejects
\* 1 only: for 2 <= x <= 1001 it returns (True, n, m) with 1 <= n <= x - 1,
\* m > n and T_m - T_n = x; for x = 1 it returns (False, 0, 0), the only
\* decomposition of 1 being T_1 - T_0, since T_m - T_n >= 2 for m > n >= 1.
C27_OnlyOneRejected ==
    (fn = "is_difference_of_triangulars" /\ ~ wide /\ arg \in 1 .. max_n + 1)
        => IF arg = 1
           THEN /\ ret = <<FALSE, 0, 0>>
                /\ Tri(1) - Tri(0) = 1
                /\ \A n \in 1 .. max_n : Tri(n + 1) - Tri(n) >= 2
           ELSE /\ ret[1]
                /\ ret[2] \in 1 .. (arg - 1)
                /\ ret[3] > ret[2]
                /\ Tri(ret[3]) - Tri(ret[2]) = arg
                /\ Tri(arg) - Tri(arg - 1) = arg

\* 1001 is accepted, with an index n inside the bound
C27_Witness ==
    /\ fn = "is_difference_of_triangulars"
    /\ ~ wide
    /\ arg = max_n + 1
    /\ ret[1]
    /\ ret[2] <= max_n

\* the indices n the loop of is_difference_of_triangulars has tried when it
\* returns: up to the returned n, or all of 1 .. max_n
TriedIndices ==
    IF ret[1] THEN 1 .. (IF wide THEN BigToNat(ret[2]) ELSE ret[2])
    ELSE 1 .. max_n

\* C28: the re-verification never rejects: in is_square_of_triangular (on
\* v = sqrt_x) and in is_difference_of_triangulars (on v = T_n + x for each
\* n tried), whenever 1 + 8v passes is_perfect_square the index
\* k = (-1 + root) // 2 has triangular_number(k) = v, so the candidate is
\* rejected only by the guard n > 0, respectively m > n.
C28_ReverificationNeverRejects ==
    /\ (fn = "is_square_of_triangular" /\ ~ wide /\ is_perfect_square(arg)
           /\ candidate_passes(int_math_sqrt(arg)))
          => /\ candidate_verified(int_math_sqrt(arg))
             /\ ~ ret[1] => candidate_index(int_math_sqrt(arg)) <= 0
    /\ (fn = "is_square_of_triangular" /\ wide /\ exc = ""
           /\ is_perfect_square_wide(arg)
           /\ candidate_passes_wide(int_math_sqrt_wide(arg)))
          => /\ candidate_verified_wide(int_math_sqrt_wide(arg))
             /\ ~ ret[1] => candidate_index_wide(int_math_sqrt_wide(arg)) = <<>>
    /\ (fn = "is_difference_of_triangulars" /\ ~ wide)
          => \A n \in TriedIndices :
                candidate_passes(triangular_number(n) + arg)
                    => /\ candidate_verified(triangular_number(n) + arg)
                       /\ (ret[1] /\ n = ret[2])
                          \/ candidate_index(triangular_number(n) + arg) <= n
    /\ (fn = "is_difference_of_triangulars" /\ wide /\ exc = "")
          => \A n \in TriedIndices :
                LET v == BigAdd(BigFromNat(triangular_number(n)), arg)
                IN  candidate_passes_wide(v)
                    => /\ candidate_verified_wide(v)
                       /\ (ret[1] /\ BigFromNat(n) = ret[2])
                          \/ BigCmp(candidate_index_wide(v), BigFromNat(n)) <= 0

\* for x = 0 the discriminant 1 passes, the index 0 has T_0 = 0, and only
\* the guard n > 0 rejects
C28_Witness ==
    /\ fn = "is_square_of_triangular"
    /\ ~ wide
    /\ arg = 0
    /\ ret = <<FALSE, 0>>
    /\ candidate_passes(0)
    /\ candidate_verified(0)

\* C29: with the bound 10000 of the source, find_smallest_solution (v0.1.0)
\* rejects x = 1 because is_difference_of_triangulars(1) is False, rejects
\* 2 .. 8 on the first predicate, and returns (9, 2, 1, 4) at x = 9, where
\* 9 = T_2^2 = T_4 - T_1; it never prints a progress line or
\* 'No solution found', never returns None, and every step before the
\* return advances x by one.
C29_FixedBoundOutcome ==
    /\ [](fn = "find_smallest_solution" /\ arg = OuterBound =>
            /\ scan_x \in 1 .. 9
            /\ ret = <<>> => ~ range_exhausted(scan_x, arg)
            /\ ret # <<>> =>
                  /\ ret = <<9, 2, 1, 4>>
                  /\ scan_x = 9
                  /\ Tri(2) * Tri(2) = 9
                  /\ Tri(4) - Tri(1) = 9
                  /\ calls = <<<<"is_square_of_triangular", 9, TRUE>>,
                               <<"is_difference_of_triangulars", 9, TRUE>>>>
            /\ \A i \in 1 .. Len(calls) :
                  /\ calls[i][1] # "print_checked_up_to"
                  /\ calls[i][1] # "print_no_solution_found"
            /\ (ret = <<>> /\ scan_x = 2) =>
                  calls = <<<<"is_square_of_triangular", 1, TRUE>>,
                            <<"is_difference_of_triangulars", 1, FALSE>>>>
            /\ (ret = <<>> /\ scan_x > 2) =>
                  calls = <<<<"is_square_of_triangular", scan_x - 1, FALSE>>>>)
    /\ [][(fn = "find_smallest_solution" /\ arg = OuterBound /\ ret = <<>>)
            => (ret' = <<9, 2, 1, 4>> \/ scan_x' = scan_x + 1)]_vars

C29_Witness ==
    /\ fn = "find_smallest_solution"
    /\ arg = OuterBound
    /\ scan_x = 9
    /\ ret = <<9, 2, 1, 4>>
    /\ calls = <<<<"is_square_of_triangular", 9, TRUE>>,
                 <<"is_difference_of_triangulars", 9, TRUE>>>>

====
